---- MODULE Spec2Model ----
(***************************************************************************)
(* Authorization & approval workflow of Cloud-Craver:                      *)
(*   src/src/auth/rbac.py          RBACEngine                              *)
(*   src/src/workflows/approval.py ApprovalRequest, ApprovalWorkflow       *)
(* The ledger is an insertion-ordered dict (a sequence of records with     *)
(* distinct ids); the storage file is missing, unreadable, or holds the    *)
(* JSON object _save_requests wrote.                                       *)
(***************************************************************************)
EXTENDS Integers, Sequences, FiniteSets, TLC

\* ------------------------------------------------------------------ bounds
MaxTime == 1
MaxRequests == 2
MaxComments == 1

\* ------------------------------------------------------------------ inputs
\* Python's None, kept apart from every string the inputs hold.
None == "~None~"
Users == {"alice", "bob"}
\* Who files requests (the scenario's requester holds no approving role).
Requesters == {"bob"}
Summaries == {"add subnet"}
Details == "details"
\* The comment argument: absent, the empty string, a text.
Comments == {None, "", "looks good"}
\* The (user, role name) pairs handed to assign_role_to_user: an approver, a user with a
\* role that grants no approval permission, and an unregistered role name.
RoleInputs == {<<"alice", "Approver">>, <<"bob", "Developer">>, <<"bob", "Ghost">>}
\* uuid4(): a fresh id per constructed request, the n-th being AllIds[n].
AllIds == <<"R1", "R2", "R3", "R4">>
Ids == {AllIds[n] : n \in 1..MaxRequests}
\* How a write of the storage file ends: written in full, or cut short after
\* open(..., "w") has truncated the file (the dump raises, or the process dies).
IOOutcomes == {"ok", "write_interrupted"}

\* ------------------------------------------------------------- permissions
CREATE_INFRA == "infrastructure:create"
READ_INFRA == "infrastructure:read"
UPDATE_INFRA == "infrastructure:update"
APPROVE_CHANGES == "approvals:approve"
REJECT_CHANGES == "approvals:reject"
MANAGE_USERS == "users:manage"
MANAGE_ROLES == "roles:manage"
VIEW_AUDIT_LOGS == "system:view_audit_logs"
ADMIN_ACCESS == "system:admin"

DEFAULT_ROLES ==
  [rn \in {"Admin", "Developer", "Auditor", "Approver"} |->
     CASE rn = "Admin" -> {ADMIN_ACCESS, MANAGE_USERS, MANAGE_ROLES, VIEW_AUDIT_LOGS}
       [] rn = "Developer" -> {CREATE_INFRA, READ_INFRA, UPDATE_INFRA}
       [] rn = "Auditor" -> {VIEW_AUDIT_LOGS, READ_INFRA}
       [] rn = "Approver" -> {APPROVE_CHANGES, REJECT_CHANGES}]

VARIABLES
  now,         \* datetime.now(timezone.utc)
  pool,        \* ApprovalRequest objects constructed and not yet handed to create_request
  issued,      \* how many ids uuid4() has produced
  requests,    \* ApprovalWorkflow.requests, in insertion order
  disk,        \* the storage file
  roles,       \* RBACEngine.roles: role name -> permission set
  user_roles,  \* RBACEngine.user_roles: user id -> set of role names
  last,        \* the last call and how it ended
  audit,       \* the entries the last call appended to the audit log
  rbac_file,   \* the file save_state writes and load_state reads
  current_user \* cli.auth_commands.current_user["id"]

vars == <<now, pool, issued, requests, disk, roles, user_roles, last, audit, rbac_file, current_user>>

\* ------------------------------------------------------------- RBAC engine
get_user_permissions(user_id) ==
  LET user_role_names == IF user_id \in DOMAIN user_roles THEN user_roles[user_id] ELSE {}
  IN  UNION {roles[rn] : rn \in user_role_names \cap DOMAIN roles}

\* Faulty variant: any permission at all passes (bool(user_permissions)).
has_permission_any(user_id, permission) ==
  get_user_permissions(user_id) # {}

has_permission(user_id, permission) ==
  permission \in get_user_permissions(user_id)

\* ------------------------------------------------------ approval requests
ApprovalStatusValue(status) ==
  CASE status = "PENDING" -> "pending"
    [] status = "APPROVED" -> "approved"
    [] status = "REJECTED" -> "rejected"
    [] status = "CANCELLED" -> "cancelled"

ApprovalStatus(value) ==
  CASE value = "pending" -> "PENDING"
    [] value = "approved" -> "APPROVED"
    [] value = "rejected" -> "REJECTED"
    [] value = "cancelled" -> "CANCELLED"

\* datetime.isoformat(): the text of a timestamp.
isoformat(t) == <<"iso", t>>

ApprovalRequest(id, requester_id, change_summary, change_details, t) ==
  [id |-> id,
   requester_id |-> requester_id,
   change_summary |-> change_summary,
   change_details |-> change_details,
   approver_role |-> "Approver",
   status |-> "PENDING",
   created_at |-> t,
   updated_at |-> t,
   approver_id |-> None,
   comments |-> <<>>]

to_dict(req) ==
  [id |-> req.id,
   requester_id |-> req.requester_id,
   change_summary |-> req.change_summary,
   change_details |-> req.change_details,
   approver_role |-> req.approver_role,
   status |-> ApprovalStatusValue(req.status),
   created_at |-> isoformat(req.created_at),
   updated_at |-> isoformat(req.updated_at),
   approver_id |-> req.approver_id,
   comments |-> req.comments]

\* ------------------------------------------------------- the ordered dict
Has(reqs, id) == \E i \in 1..Len(reqs) : reqs[i].id = id
IndexOf(reqs, id) == CHOOSE i \in 1..Len(reqs) : reqs[i].id = id
Get(reqs, id) == reqs[IndexOf(reqs, id)]
\* d[key] = value: a present key keeps its place, a new key goes last.
DictSet(reqs, id, req) ==
  IF Has(reqs, id) THEN [reqs EXCEPT ![IndexOf(reqs, id)] = req] ELSE Append(reqs, req)

\* ------------------------------------------------------------ persistence
Missing == [kind |-> "missing", data |-> <<>>]
Corrupt == [kind |-> "corrupt", data |-> <<>>]
Json(data) == [kind |-> "json", data |-> data]

dump(reqs) == [i \in 1..Len(reqs) |-> [key |-> reqs[i].id, value |-> to_dict(reqs[i])]]

\* Faulty variant: the write is left out (write-behind).
save_requests_skipped(reqs, old, io) == old

save_requests(reqs, old, io) ==
  CASE io = "ok" -> Json(dump(reqs))
    [] io = "write_interrupted" -> Corrupt

load_requests(file, t) ==
  IF file.kind = "json"
  THEN [i \in 1..Len(file.data) |->
          [ApprovalRequest(file.data[i].key,
                           file.data[i].value.requester_id,
                           file.data[i].value.change_summary,
                           file.data[i].value.change_details,
                           t)
             EXCEPT !.status = ApprovalStatus(file.data[i].value.status)]]
  ELSE <<>>

\* ------------------------------------------------------------- audit sink
INFRA_CHANGE_REQUESTED == "infra.change.requested"
INFRA_CHANGE_APPROVED == "infra.change.approved"
PERMISSION_DENIED == "rbac.permission.denied"

\* AuditLogger.log: one structured entry, status "success" unless given.
log_entry(event, actor_id, target_id, details, t) ==
  [timestamp |-> isoformat(t),
   event |-> event,
   actor_id |-> actor_id,
   target_id |-> target_id,
   status |-> "success",
   details |-> details]

\* --------------------------------------------------------------- workflow
Call(op, id, actor, comment, result) ==
  [op |-> op, id |-> id, actor |-> actor, comment |-> comment, result |-> result]

SaveResult(io) == IF io = "ok" THEN "ok" ELSE "OSError"

\* Faulty variant: the audit entry is written before the save, so it is there
\* even when the save fails.
create_request_audit_first(reqs, file, request, t, io) ==
  LET stored == DictSet(reqs, request.id, request)
  IN  [requests |-> stored,
       disk |-> save_requests(stored, file, io),
       result |-> SaveResult(io),
       audit |-> <<log_entry(INFRA_CHANGE_REQUESTED, request.requester_id, request.id,
                             request.change_summary, t)>>]

create_request(reqs, file, request, t, io) ==
  LET stored == DictSet(reqs, request.id, request)
  IN  [requests |-> stored,
       disk |-> save_requests(stored, file, io),
       result |-> SaveResult(io),
       audit |-> IF io = "ok"
                 THEN <<log_entry(INFRA_CHANGE_REQUESTED, request.requester_id, request.id,
                                  request.change_summary, t)>>
                 ELSE <<>>]

\* if comment: ...   (None and "" are falsy)
Truthy(comment) == comment # None /\ comment # ""

\* Faulty variant: the comment entry is appended without the `if comment:` test.
approve_fields_comment_always(request, approver_id, comment, t) ==
  [request EXCEPT !.status = "APPROVED",
                  !.approver_id = approver_id,
                  !.updated_at = t,
                  !.comments = Append(@, [user_id |-> approver_id, comment |-> comment])]

approve_fields(request, approver_id, comment, t) ==
  [request EXCEPT !.status = "APPROVED",
                  !.approver_id = approver_id,
                  !.updated_at = t,
                  !.comments = IF Truthy(comment)
                               THEN Append(@, [user_id |-> approver_id, comment |-> comment])
                               ELSE @]

\* Faulty variant: the permission check comes before the lookup.
approve_request_permission_first(reqs, file, request_id, approver_id, comment, t, io) ==
  IF ~has_permission(approver_id, APPROVE_CHANGES)
  THEN [requests |-> reqs, disk |-> file, result |-> "PermissionError", audit |-> <<>>]
  ELSE IF ~Has(reqs, request_id)
  THEN [requests |-> reqs, disk |-> file, result |-> "ValueError", audit |-> <<>>]
  ELSE LET stored == DictSet(reqs, request_id,
                             approve_fields(Get(reqs, request_id), approver_id, comment, t))
       IN  [requests |-> stored,
            disk |-> save_requests(stored, file, io),
            result |-> SaveResult(io),
            audit |-> IF io = "ok"
                      THEN <<log_entry(INFRA_CHANGE_APPROVED, approver_id, request_id,
                                       [comment |-> comment], t)>>
                      ELSE <<>>]

\* Faulty variant: the approver must hold the role named in the request's
\* approver_role, whatever that role grants.
approve_request_role_name_match(reqs, file, request_id, approver_id, comment, t, io) ==
  IF ~Has(reqs, request_id)
  THEN [requests |-> reqs, disk |-> file, result |-> "ValueError", audit |-> <<>>]
  ELSE IF ~(/\ approver_id \in DOMAIN user_roles
            /\ Get(reqs, request_id).approver_role \in user_roles[approver_id])
  THEN [requests |-> reqs, disk |-> file, result |-> "PermissionError", audit |-> <<>>]
  ELSE LET stored == DictSet(reqs, request_id,
                             approve_fields(Get(reqs, request_id), approver_id, comment, t))
       IN  [requests |-> stored,
            disk |-> save_requests(stored, file, io),
            result |-> SaveResult(io),
            audit |-> IF io = "ok"
                      THEN <<log_entry(INFRA_CHANGE_APPROVED, approver_id, request_id,
                                       [comment |-> comment], t)>>
                      ELSE <<>>]

approve_request(reqs, file, request_id, approver_id, comment, t, io) ==
  IF ~Has(reqs, request_id)
  THEN [requests |-> reqs, disk |-> file, result |-> "ValueError", audit |-> <<>>]
  ELSE IF ~has_permission(approver_id, APPROVE_CHANGES)
  THEN [requests |-> reqs, disk |-> file, result |-> "PermissionError", audit |-> <<>>]
  ELSE LET stored == DictSet(reqs, request_id,
                             approve_fields(Get(reqs, request_id), approver_id, comment, t))
       IN  [requests |-> stored,
            disk |-> save_requests(stored, file, io),
            result |-> SaveResult(io),
            audit |-> IF io = "ok"
                      THEN <<log_entry(INFRA_CHANGE_APPROVED, approver_id, request_id,
                                       [comment |-> comment], t)>>
                      ELSE <<>>]

\* Faulty variant: the status filter is inverted.
list_pending_inverted(reqs) ==
  SelectSeq(reqs, LAMBDA req : req.status # "PENDING")

list_pending_requests(reqs) ==
  SelectSeq(reqs, LAMBDA req : req.status = "PENDING")

\* ------------------------------------------------------------------- Init
Init ==
  /\ now = 0
  /\ pool = {}
  /\ issued = 0
  /\ requests = <<>>
  /\ disk = Missing
  /\ roles = DEFAULT_ROLES
  /\ user_roles = << >>
  /\ last = Call("init", None, None, None, "ok")
  /\ audit = <<>>
  /\ rbac_file = Missing
  /\ current_user = None

\* ---------------------------------------------------------------- actions
Tick ==
  /\ now < MaxTime
  /\ now' = now + 1
  /\ audit' = <<>>
  /\ last' = Call("tick", None, None, None, "ok")
  /\ UNCHANGED <<pool, issued, requests, disk, roles, user_roles, rbac_file, current_user>>

Construct ==
  /\ issued < MaxRequests
  /\ \E requester_id \in Requesters, change_summary \in Summaries :
       /\ pool' = pool \cup {ApprovalRequest(AllIds[issued + 1], requester_id,
                                             change_summary, Details, now)}
       /\ audit' = <<>>
       /\ last' = Call("construct", AllIds[issued + 1], requester_id, None, "ok")
  /\ issued' = issued + 1
  /\ UNCHANGED <<now, requests, disk, roles, user_roles, rbac_file, current_user>>

CreateRequest ==
  \E request \in pool, io \in IOOutcomes :
    LET out == create_request(requests, disk, request, now, io)
    IN  /\ requests' = out.requests
        /\ disk' = out.disk
        /\ pool' = pool \ {request}
        /\ audit' = out.audit
        /\ last' = Call("create", request.id, request.requester_id, None, out.result)
        /\ UNCHANGED <<now, issued, roles, user_roles, rbac_file, current_user>>

\* Faulty variant: a successful approval also gives the approver the role the
\* request names.
ApproveRequestGrantsRole ==
  \E request_id \in Ids, approver_id \in Users, comment \in Comments, io \in IOOutcomes :
    LET out == approve_request(requests, disk, request_id, approver_id, comment, now, io)
        granted == Get(requests, request_id).approver_role
    IN  /\ \A i \in 1..Len(out.requests) : Len(out.requests[i].comments) <= MaxComments
        /\ requests' = out.requests
        /\ disk' = out.disk
        /\ audit' = out.audit
        /\ last' = Call("approve", request_id, approver_id, comment, out.result)
        /\ user_roles' =
             IF out.result = "ok"
             THEN [u \in DOMAIN user_roles \cup {approver_id} |->
                     IF u = approver_id
                     THEN (IF u \in DOMAIN user_roles THEN user_roles[u] ELSE {})
                            \cup {granted}
                     ELSE user_roles[u]]
             ELSE user_roles
        /\ UNCHANGED <<now, pool, issued, roles, rbac_file, current_user>>

ApproveRequest ==
  \E request_id \in Ids, approver_id \in Users, comment \in Comments, io \in IOOutcomes :
    LET out == approve_request(requests, disk, request_id, approver_id, comment, now, io)
    IN  /\ \A i \in 1..Len(out.requests) : Len(out.requests[i].comments) <= MaxComments
        /\ requests' = out.requests
        /\ disk' = out.disk
        /\ audit' = out.audit
        /\ last' = Call("approve", request_id, approver_id, comment, out.result)
        /\ UNCHANGED <<now, pool, issued, roles, user_roles, rbac_file, current_user>>

\* ApprovalWorkflow has no reject_request: the call raises AttributeError.
RejectRequest ==
  \E request_id \in Ids, approver_id \in Users, comment \in Comments :
    /\ audit' = <<>>
    /\ last' = Call("reject", request_id, approver_id, comment, "AttributeError")
    /\ UNCHANGED <<now, pool, issued, requests, disk, roles, user_roles, rbac_file, current_user>>

\* A fresh ApprovalWorkflow on the same storage file and RBAC engine.
Reload ==
  /\ requests' = load_requests(disk, now)
  /\ audit' = <<>>
  /\ last' = Call("reload", None, None, None, "ok")
  /\ UNCHANGED <<now, pool, issued, disk, roles, user_roles, rbac_file, current_user>>

AssignRole ==
  \E ur \in RoleInputs :
    LET user_id == ur[1]
        role_name == ur[2]
    IN
    IF role_name \notin DOMAIN roles
    THEN /\ audit' = <<>>
         /\ last' = Call("assign_role", None, user_id, None, "ValueError")
         /\ UNCHANGED <<now, pool, issued, requests, disk, roles, user_roles, rbac_file, current_user>>
    ELSE /\ user_roles' =
              [u \in DOMAIN user_roles \cup {user_id} |->
                 IF u = user_id
                 THEN (IF u \in DOMAIN user_roles THEN user_roles[u] ELSE {}) \cup {role_name}
                 ELSE user_roles[u]]
         /\ audit' = <<>>
         /\ last' = Call("assign_role", None, user_id, None, "ok")
         /\ UNCHANGED <<now, pool, issued, requests, disk, roles, rbac_file, current_user>>

Next ==
  \/ Tick
  \/ Construct
  \/ CreateRequest
  \/ ApproveRequest
  \/ RejectRequest
  \/ Reload
  \/ AssignRole

Spec == Init /\ [][Next]_vars

\* ------------------------------------------------- RBAC engine, mutators
\* Role(name, permissions)
Role(name, permissions) == [name |-> name, permissions |-> permissions]

\* Roles handed to add_role: a custom role granting the approval permission, and
\* one whose name a default role already has.
RoleObjects == {Role("Releaser", {APPROVE_CHANGES}), Role("Admin", {READ_INFRA})}
\* Role names handed to assign/remove: a default role, the custom role, and a name
\* that is never registered.
RoleNames == {"Approver", "Releaser", "Ghost"}
\* Permissions asked of has_permission.
QueryPermissions == {APPROVE_CHANGES, REJECT_CHANGES, READ_INFRA}

\* user_roles.get(user_id, set())
RolesOf(ur, user_id) == IF user_id \in DOMAIN ur THEN ur[user_id] ELSE {}
\* user_roles[user_id] = role_names, creating the entry when absent
WithRoles(ur, user_id, role_names) ==
  [u \in DOMAIN ur \cup {user_id} |-> IF u = user_id THEN role_names ELSE ur[u]]

\* Faulty variant: the role is stored without the duplicate check.
add_role_overwrite(rs, role) ==
  [roles |-> [rn \in DOMAIN rs \cup {role.name} |->
                IF rn = role.name THEN role.permissions ELSE rs[rn]],
   result |-> "ok"]

add_role(rs, role) ==
  IF role.name \in DOMAIN rs
  THEN [roles |-> rs, result |-> "ValueError"]
  ELSE [roles |-> [rn \in DOMAIN rs \cup {role.name} |->
                     IF rn = role.name THEN role.permissions ELSE rs[rn]],
        result |-> "ok"]

\* Faulty variant: the user's entry is created before the role name is checked.
assign_role_entry_first(rs, ur, user_id, role_name) ==
  LET entered == WithRoles(ur, user_id, RolesOf(ur, user_id))
  IN  IF role_name \notin DOMAIN rs
      THEN [user_roles |-> entered, result |-> "ValueError"]
      ELSE [user_roles |-> WithRoles(ur, user_id, RolesOf(ur, user_id) \cup {role_name}),
            result |-> "ok"]

\* Faulty variant: a new user's entry is created empty and the role added only
\* to an entry that was already there.
assign_role_new_entry_empty(rs, ur, user_id, role_name) ==
  IF role_name \notin DOMAIN rs
  THEN [user_roles |-> ur, result |-> "ValueError"]
  ELSE IF user_id \notin DOMAIN ur
  THEN [user_roles |-> WithRoles(ur, user_id, {}), result |-> "ok"]
  ELSE [user_roles |-> WithRoles(ur, user_id, ur[user_id] \cup {role_name}), result |-> "ok"]

\* Faulty variant: a role the user already holds is refused.
assign_role_refuse_held(rs, ur, user_id, role_name) ==
  IF role_name \notin DOMAIN rs \/ role_name \in RolesOf(ur, user_id)
  THEN [user_roles |-> ur, result |-> "ValueError"]
  ELSE [user_roles |-> WithRoles(ur, user_id, RolesOf(ur, user_id) \cup {role_name}),
        result |-> "ok"]

assign_role_to_user(rs, ur, user_id, role_name) ==
  IF role_name \notin DOMAIN rs
  THEN [user_roles |-> ur, result |-> "ValueError"]
  ELSE [user_roles |-> WithRoles(ur, user_id, RolesOf(ur, user_id) \cup {role_name}),
        result |-> "ok"]

\* Faulty variant: set.remove without the membership test raises KeyError.
remove_role_unguarded(ur, user_id, role_name) ==
  IF user_id \in DOMAIN ur /\ role_name \in ur[user_id]
  THEN [user_roles |-> [ur EXCEPT ![user_id] = @ \ {role_name}], result |-> "ok"]
  ELSE [user_roles |-> ur, result |-> "KeyError"]

remove_role_from_user(ur, user_id, role_name) ==
  IF user_id \in DOMAIN ur /\ role_name \in ur[user_id]
  THEN [user_roles |-> [ur EXCEPT ![user_id] = @ \ {role_name}], result |-> "ok"]
  ELSE [user_roles |-> ur, result |-> "ok"]

\* json.dump({"user_roles": {user_id: list(roles)}}): the role lists are read back
\* with set(), so the file is modelled by the mapping it holds.
save_state(ur, old, io) ==
  CASE io = "ok" -> Json(ur)
    [] io = "write_interrupted" -> Corrupt

\* Both except clauses only log: the call returns normally and the mapping stays.
load_state(ur, file) ==
  CASE file.kind = "json" -> [user_roles |-> file.data, result |-> "ok"]
    [] file.kind = "missing" -> [user_roles |-> ur, result |-> "ok"]
    [] file.kind = "corrupt" -> [user_roles |-> ur, result |-> "ok"]

Bool(b) == IF b THEN "True" ELSE "False"

\* -------------------------------------------------- RBAC engine, actions
ledgerVars == <<now, pool, issued, requests, disk>>

AddRole ==
  \E role \in RoleObjects :
    LET out == add_role(roles, role)
    IN  /\ roles' = out.roles
        /\ audit' = <<>>
        /\ last' = Call("add_role", role.name, None, None, out.result)
        /\ UNCHANGED <<ledgerVars, user_roles, rbac_file, current_user>>

AssignRoleToUser(user_id, role_name) ==
  LET out == assign_role_to_user(roles, user_roles, user_id, role_name)
  IN  /\ user_roles' = out.user_roles
      /\ audit' = <<>>
      /\ last' = Call("assign_role_to_user", role_name, user_id, None, out.result)
      /\ UNCHANGED <<ledgerVars, roles, rbac_file, current_user>>

RemoveRoleFromUser(user_id, role_name) ==
  LET out == remove_role_from_user(user_roles, user_id, role_name)
  IN  /\ user_roles' = out.user_roles
      /\ audit' = <<>>
      /\ last' = Call("remove_role_from_user", role_name, user_id, None, out.result)
      /\ UNCHANGED <<ledgerVars, roles, rbac_file, current_user>>

HasPermission ==
  \E user_id \in Users, permission \in QueryPermissions :
    /\ audit' = <<>>
    /\ last' = Call("has_permission", permission, user_id, None,
                    Bool(has_permission(user_id, permission)))
    /\ UNCHANGED <<ledgerVars, roles, user_roles, rbac_file, current_user>>

SaveState ==
  \E io \in IOOutcomes :
    /\ rbac_file' = save_state(user_roles, rbac_file, io)
    /\ audit' = <<>>
    /\ last' = Call("save_state", None, None, None, SaveResult(io))
    /\ UNCHANGED <<ledgerVars, roles, user_roles, current_user>>

LoadState ==
  LET out == load_state(user_roles, rbac_file)
  IN  /\ user_roles' = out.user_roles
      /\ audit' = <<>>
      /\ last' = Call("load_state", None, None, None, out.result)
      /\ UNCHANGED <<ledgerVars, roles, rbac_file, current_user>>

\* A new process: DEFAULT_ROLES as the module defines it, RBACEngine() with an
\* empty mapping; the files stay.
Restart ==
  /\ roles' = DEFAULT_ROLES
  /\ user_roles' = << >>
  /\ audit' = <<>>
  /\ last' = Call("restart", None, None, None, "ok")
  /\ UNCHANGED <<ledgerVars, rbac_file, current_user>>

\* RBACEngine() once more in the same process: `roles or DEFAULT_ROLES` hands the
\* new engine the module's dict itself, the object add_role has been writing
\* to, so its role table is the table as it stands; its mapping is a new {}.
NewEngine ==
  /\ roles' = roles
  /\ user_roles' = << >>
  /\ audit' = <<>>
  /\ last' = Call("new_engine", None, None, None, "ok")
  /\ UNCHANGED <<ledgerVars, rbac_file, current_user>>

RbacAssign == \E user_id \in Users, role_name \in RoleNames : AssignRoleToUser(user_id, role_name)
RbacRemove == \E user_id \in Users, role_name \in RoleNames : RemoveRoleFromUser(user_id, role_name)

NextRBAC ==
  \/ AddRole
  \/ RbacAssign
  \/ RbacRemove
  \/ HasPermission
  \/ SaveState
  \/ LoadState
  \/ Restart
  \/ NewEngine

SpecRBAC == Init /\ [][NextRBAC]_vars

\* ------------------------------------- approval gate with custom roles
\* ApprovalRequest(..., approver_role=...): the keyword the default leaves out.
ApproverRoles == {"Approver", "Developer"}

ApprovalRequestFor(id, requester_id, change_summary, change_details, approver_role, t) ==
  [ApprovalRequest(id, requester_id, change_summary, change_details, t)
     EXCEPT !.approver_role = approver_role]

GateRoleInputs == {<<"alice", "Releaser">>, <<"bob", "Developer">>, <<"bob", "Approver">>}

ConstructFor ==
  /\ issued < MaxRequests
  /\ \E requester_id \in Requesters, change_summary \in Summaries,
        approver_role \in ApproverRoles :
       /\ pool' = pool \cup {ApprovalRequestFor(AllIds[issued + 1], requester_id,
                                                change_summary, Details, approver_role, now)}
       /\ audit' = <<>>
       /\ last' = Call("construct", AllIds[issued + 1], requester_id, None, "ok")
  /\ issued' = issued + 1
  /\ UNCHANGED <<now, requests, disk, roles, user_roles, rbac_file, current_user>>

\* create_request handed a second request object that carries an id already
\* in the ledger.
CreateDuplicate ==
  \E i \in 1..Len(requests), io \in IOOutcomes :
    LET request == ApprovalRequest(requests[i].id, requests[i].requester_id,
                                   requests[i].change_summary, Details, now)
        out == create_request(requests, disk, request, now, io)
    IN  /\ requests' = out.requests
        /\ disk' = out.disk
        /\ audit' = out.audit
        /\ last' = Call("create", request.id, request.requester_id, None, out.result)
        /\ UNCHANGED <<now, pool, issued, roles, user_roles, rbac_file, current_user>>

GateAssign == \E ur \in GateRoleInputs : AssignRoleToUser(ur[1], ur[2])

NextGate ==
  \/ ConstructFor
  \/ CreateRequest
  \/ CreateDuplicate
  \/ ApproveRequest
  \/ AddRole
  \/ GateAssign

SpecGate == Init /\ [][NextGate]_vars

\* ------------------------------------ workflow beside a changing RBAC engine
\* list_pending_requests prints a table of the pending requests: the call is
\* recorded with the ids it lists.
ListPending ==
  LET listed == list_pending_requests(requests)
  IN  /\ audit' = <<>>
      /\ last' = Call("list_pending", None, None, None,
                      [i \in 1..Len(listed) |-> listed[i].id])
      /\ UNCHANGED <<now, pool, issued, requests, disk, roles, user_roles, rbac_file, current_user>>

NextFrame ==
  \/ Construct
  \/ CreateRequest
  \/ ApproveRequest
  \/ ListPending
  \/ Reload
  \/ AddRole
  \/ GateAssign

SpecFrame == Init /\ [][NextFrame]_vars

\* ------------------------------------- two workflows on one storage file
\* A second ApprovalWorkflow on the same storage_file, in another process: it
\* is built (and so loads the file), performs one call and goes away. The first
\* workflow keeps the ledger it holds in memory.
OtherCreateRequest ==
  \E request \in pool, io \in IOOutcomes :
    LET loaded == load_requests(disk, now)
        out == create_request(loaded, disk, request, now, io)
    IN  /\ disk' = out.disk
        /\ pool' = pool \ {request}
        /\ audit' = out.audit
        /\ last' = Call("other_create", request.id, request.requester_id, None, out.result)
        /\ UNCHANGED <<now, issued, requests, roles, user_roles, rbac_file, current_user>>

OtherApproveRequest ==
  \E request_id \in Ids, approver_id \in Users, comment \in Comments, io \in IOOutcomes :
    LET loaded == load_requests(disk, now)
        out == approve_request(loaded, disk, request_id, approver_id, comment, now, io)
    IN  /\ \A i \in 1..Len(out.requests) : Len(out.requests[i].comments) <= MaxComments
        /\ disk' = out.disk
        /\ audit' = out.audit
        /\ last' = Call("other_approve", request_id, approver_id, comment, out.result)
        /\ UNCHANGED <<now, pool, issued, requests, roles, user_roles, rbac_file, current_user>>

NextTwoWriters ==
  \/ Construct
  \/ CreateRequest
  \/ ApproveRequest
  \/ Reload
  \/ AssignRole
  \/ OtherCreateRequest
  \/ OtherApproveRequest

SpecTwoWriters == Init /\ [][NextTwoWriters]_vars

\* ------------------------------------------------------- the CLI as wired
\* cli.auth_commands: rbac_engine = RBACEngine() and current_user["id"] = None at
\* import; cli.workflow_commands: approval_workflow = ApprovalWorkflow(rbac_engine)
\* at import. Nothing in the CLI calls load_state, save_state or add_role.
USER_LOGIN_SUCCESS == "user.login.success"
USER_LOGIN_FAILURE == "user.login.failure"
ROLE_ASSIGNED == "rbac.role.assigned"

\* What perform_saml_login hands back: a name_id, or nothing.
LoginOutcomes == Users \cup {None}
CliRoleNames == {"Approver", "Admin", "Ghost"}

\* auth login
cli_login(rs, ur, cur, name_id, t) ==
  IF name_id = None
  THEN [current_user |-> cur, user_roles |-> ur, result |-> "failed",
        audit |-> <<log_entry(USER_LOGIN_FAILURE, "unknown", None, << >>, t)>>]
  ELSE [current_user |-> name_id,
        user_roles |-> assign_role_to_user(rs, ur, name_id, "Developer").user_roles,
        result |-> "ok",
        audit |-> <<log_entry(USER_LOGIN_SUCCESS, name_id, None, << >>, t)>>]

\* Faulty variant: the roles:manage test is left out.
cli_assign_role_ungated(rs, ur, actor_id, user_id, role_name, t) ==
  LET out == assign_role_to_user(rs, ur, user_id, role_name)
  IN  [user_roles |-> out.user_roles,
       result |-> out.result,
       audit |-> IF out.result = "ok"
                 THEN <<log_entry(ROLE_ASSIGNED, actor_id, user_id, [role |-> role_name], t)>>
                 ELSE <<>>]

\* auth assign-role USER_ID ROLE_NAME
cli_assign_role(rs, ur, actor_id, user_id, role_name, t) ==
  IF ~has_permission(actor_id, MANAGE_ROLES)
  THEN [user_roles |-> ur,
        result |-> "denied",
        audit |-> <<log_entry(PERMISSION_DENIED, actor_id, None,
                              [permission |-> MANAGE_ROLES], t)>>]
  ELSE LET out == assign_role_to_user(rs, ur, user_id, role_name)
       IN  [user_roles |-> out.user_roles,
            result |-> out.result,
            audit |-> IF out.result = "ok"
                      THEN <<log_entry(ROLE_ASSIGNED, actor_id, user_id,
                                       [role |-> role_name], t)>>
                      ELSE <<>>]

Denied(actor_id, permission, t) ==
  <<log_entry(PERMISSION_DENIED, actor_id, None, [permission |-> permission], t)>>

CliLogin ==
  \E name_id \in LoginOutcomes :
    LET out == cli_login(roles, user_roles, current_user, name_id, now)
    IN  /\ current_user' = out.current_user
        /\ user_roles' = out.user_roles
        /\ audit' = out.audit
        /\ last' = Call("cli_login", None, name_id, None, out.result)
        /\ UNCHANGED <<ledgerVars, roles, rbac_file>>

CliAssignRole ==
  \E user_id \in Users, role_name \in CliRoleNames :
    LET out == cli_assign_role(roles, user_roles, current_user, user_id, role_name, now)
    IN  /\ user_roles' = out.user_roles
        /\ audit' = out.audit
        /\ last' = Call("cli_assign_role", role_name, current_user, None, out.result)
        /\ UNCHANGED <<ledgerVars, roles, rbac_file, current_user>>

\* auth show-permissions USER_ID
CliShowPermissions ==
  \E user_id \in Users :
    /\ IF ~has_permission(current_user, MANAGE_USERS)
       THEN /\ audit' = Denied(current_user, MANAGE_USERS, now)
            /\ last' = Call("cli_show_permissions", user_id, current_user, None, "denied")
       ELSE /\ audit' = <<>>
            /\ last' = Call("cli_show_permissions", user_id, current_user, None,
                            get_user_permissions(user_id))
    /\ UNCHANGED <<ledgerVars, roles, user_roles, rbac_file, current_user>>

\* workflow request-approval --summary S --details D
CliRequestApproval ==
  \E change_summary \in Summaries, io \in IOOutcomes :
    IF ~has_permission(current_user, CREATE_INFRA)
    THEN /\ audit' = Denied(current_user, CREATE_INFRA, now)
         /\ last' = Call("cli_request_approval", None, current_user, None, "denied")
         /\ UNCHANGED <<ledgerVars, roles, user_roles, rbac_file, current_user>>
    ELSE /\ issued < MaxRequests
         /\ LET request == ApprovalRequest(AllIds[issued + 1], current_user,
                                           change_summary, Details, now)
                out == create_request(requests, disk, request, now, io)
            IN  /\ requests' = out.requests
                /\ disk' = out.disk
                /\ audit' = out.audit
                /\ last' = Call("cli_request_approval", request.id, current_user, None,
                                out.result)
         /\ issued' = issued + 1
         /\ UNCHANGED <<now, pool, roles, user_roles, rbac_file, current_user>>

\* workflow approve REQUEST_ID [--comment C]: ValueError and PermissionError are
\* caught and printed.
CliApprove ==
  \E request_id \in Ids, comment \in Comments, io \in IOOutcomes :
    LET out == approve_request(requests, disk, request_id, current_user, comment, now, io)
    IN  /\ \A i \in 1..Len(out.requests) : Len(out.requests[i].comments) <= MaxComments
        /\ requests' = out.requests
        /\ disk' = out.disk
        /\ audit' = out.audit
        /\ last' = Call("cli_approve", request_id, current_user, comment, out.result)
        /\ UNCHANGED <<now, pool, issued, roles, user_roles, rbac_file, current_user>>

\* workflow list-pending
CliListPending ==
  LET listed == list_pending_requests(requests)
  IN  /\ IF ~has_permission(current_user, APPROVE_CHANGES)
         THEN /\ audit' = Denied(current_user, APPROVE_CHANGES, now)
              /\ last' = Call("cli_list_pending", None, current_user, None, "denied")
         ELSE /\ audit' = <<>>
              /\ last' = Call("cli_list_pending", None, current_user, None,
                              [i \in 1..Len(listed) |-> listed[i].id])
      /\ UNCHANGED <<ledgerVars, roles, user_roles, rbac_file, current_user>>

\* The next invocation of the program: the modules are imported anew, only the
\* storage file is carried over.
CliNewProcess ==
  /\ current_user' = None
  /\ roles' = DEFAULT_ROLES
  /\ user_roles' = << >>
  /\ requests' = load_requests(disk, now)
  /\ audit' = <<>>
  /\ last' = Call("cli_new_process", None, None, None, "ok")
  /\ UNCHANGED <<now, pool, issued, disk, rbac_file>>

NextCLI ==
  \/ Tick
  \/ CliLogin
  \/ CliAssignRole
  \/ CliShowPermissions
  \/ CliRequestApproval
  \/ CliApprove
  \/ CliListPending
  \/ CliNewProcess

SpecCLI == Init /\ [][NextCLI]_vars

\* ----------------------------------------------------------------- claims
\* Whether a user holds a permission through some assigned, registered role,
\* read off the RBAC state itself.
Holds(user_id, permission) ==
  /\ user_id \in DOMAIN user_roles
  /\ \E rn \in user_roles[user_id] : rn \in DOMAIN roles /\ permission \in roles[rn]

Count(reqs, id) == Cardinality({i \in 1..Len(reqs) : reqs[i].id = id})

\* C1: a request that is no longer pending never changes status, approver_id or
\* updated_at again, whatever create_request, approve_request or a reload does.
C1_TerminalImmutable ==
  [][last'.op \in {"create", "approve", "reload"} =>
       \A i \in 1..Len(requests) :
         requests[i].status # "PENDING" =>
           /\ Has(requests', requests[i].id)
           /\ Get(requests', requests[i].id).status = requests[i].status
           /\ Get(requests', requests[i].id).approver_id = requests[i].approver_id
           /\ Get(requests', requests[i].id).updated_at = requests[i].updated_at]_vars

\* C2: approve_request on a request already approved, by an actor holding the
\* approve permission, fails with an invalid-transition error and leaves the
\* record (status, approver_id, updated_at, comments) as it was.
C2_SecondApproveFails ==
  [][(/\ last'.op = "approve"
      /\ Has(requests, last'.id)
      /\ Get(requests, last'.id).status = "APPROVED"
      /\ Holds(last'.actor, APPROVE_CHANGES)) =>
       /\ last'.result = "InvalidTransitionError"
       /\ Has(requests', last'.id)
       /\ Get(requests', last'.id) = Get(requests, last'.id)]_vars

\* C3: approve_request on a pending request by an actor without approvals:approve
\* ends in a permission error; the request stays pending with no approver, and
\* neither the in-memory ledger nor the storage file changes.
C3_DeniedLeavesPending ==
  [][(/\ last'.op = "approve"
      /\ Has(requests, last'.id)
      /\ Get(requests, last'.id).status = "PENDING"
      /\ ~Holds(last'.actor, APPROVE_CHANGES)) =>
       /\ last'.result = "PermissionError"
       /\ requests' = requests
       /\ disk' = disk
       /\ Get(requests', last'.id).status = "PENDING"
       /\ Get(requests', last'.id).approver_id = None]_vars

\* C3 witness: bob, who holds no approving role, has just been refused on a
\* pending request.
C3_Witness ==
  /\ last.op = "approve"
  /\ last.actor = "bob"
  /\ last.result = "PermissionError"
  /\ Has(requests, last.id)
  /\ Get(requests, last.id).status = "PENDING"
  /\ Get(requests, last.id).approver_id = None
  /\ ~Holds("bob", APPROVE_CHANGES)

\* C4 as stated: a successful approve_request on a pending request sets status
\* approved and approver_id to the approver, and appends exactly one comment entry
\* whenever a comment is supplied (none when it is absent).
C4_CommentWheneverSupplied ==
  [][(/\ last'.op = "approve"
      /\ last'.result = "ok"
      /\ Has(requests, last'.id)
      /\ Get(requests, last'.id).status = "PENDING") =>
       /\ Get(requests', last'.id).status = "APPROVED"
       /\ Get(requests', last'.id).approver_id = last'.actor
       /\ Get(requests', last'.id).comments =
            IF last'.comment # None
            THEN <<[user_id |-> last'.actor, comment |-> last'.comment]>>
            ELSE <<>>]_vars

\* C4 as amended: a successful approve_request on a pending request sets status
\* approved and approver_id to the approver, and appends exactly one comment entry
\* {approver, comment} when a non-empty comment is supplied; with no comment or the
\* empty string it appends none.
C4_ApproveRecordsApprover ==
  [][(/\ last'.op = "approve"
      /\ last'.result = "ok"
      /\ Has(requests, last'.id)
      /\ Get(requests, last'.id).status = "PENDING") =>
       /\ Get(requests', last'.id).status = "APPROVED"
       /\ Get(requests', last'.id).approver_id = last'.actor
       /\ Get(requests', last'.id).comments =
            IF last'.comment \notin {None, ""}
            THEN <<[user_id |-> last'.actor, comment |-> last'.comment]>>
            ELSE <<>>]_vars

\* C4 witness: alice (Approver) has approved with the comment "looks good" while
\* bob holds no approving role; the request is approved by alice and holds that
\* one comment.
C4_Witness ==
  /\ last = Call("approve", last.id, "alice", "looks good", "ok")
  /\ ~Holds("bob", APPROVE_CHANGES)
  /\ Has(requests, last.id)
  /\ Get(requests, last.id).status = "APPROVED"
  /\ Get(requests, last.id).approver_id = "alice"
  /\ Get(requests, last.id).comments = <<[user_id |-> "alice", comment |-> "looks good"]>>

\* C5: after create_request(r) with r.id not yet in the ledger, the ledger holds r
\* under its id, and list_pending_requests enumerates r exactly once, as pending.
C5_CreatedIsPendingOnce ==
  [][(/\ last'.op = "create"
      /\ last'.result = "ok"
      /\ ~Has(requests, last'.id)) =>
       LET r == CHOOSE p \in pool : p.id = last'.id
           pending == list_pending_requests(requests')
       IN  /\ Count(requests', r.id) = 1
           /\ Get(requests', r.id) = r
           /\ Count(pending, r.id) = 1
           /\ Get(pending, r.id).status = "PENDING"]_vars

\* C5 witness: a request has just been created next to an approved one, and the
\* pending list holds exactly the new one.
C5_Witness ==
  /\ last.op = "create"
  /\ last.result = "ok"
  /\ Len(requests) = 2
  /\ \E i \in 1..Len(requests) : requests[i].status = "APPROVED"
  /\ Len(list_pending_requests(requests)) = 1
  /\ list_pending_requests(requests)[1].id = last.id

\* What list_pending_requests shows of the ledger, to compare across a reload.
PendingView(reqs) ==
  {[id |-> r.id, change_summary |-> r.change_summary,
    created_at |-> r.created_at, updated_at |-> r.updated_at] :
     r \in {reqs[i] : i \in {j \in 1..Len(reqs) : reqs[j].status = "PENDING"}}}

\* C6: loading the saved ledger into a fresh ApprovalWorkflow yields the same
\* pending requests: same ids, summaries, created_at and updated_at.
C6_RoundTrip ==
  [][(last'.op = "reload" /\ disk = Json(dump(requests))) =>
       PendingView(requests') = PendingView(requests)]_vars

\* The stored entry is the serialization of the request, field by field.
SerializedAs(entry, req) ==
  /\ entry.key = req.id
  /\ entry.value.id = req.id
  /\ entry.value.requester_id = req.requester_id
  /\ entry.value.change_summary = req.change_summary
  /\ entry.value.change_details = req.change_details
  /\ entry.value.approver_role = req.approver_role
  /\ entry.value.status = ApprovalStatusValue(req.status)
  /\ entry.value.created_at = isoformat(req.created_at)
  /\ entry.value.updated_at = isoformat(req.updated_at)
  /\ entry.value.approver_id = req.approver_id
  /\ entry.value.comments = req.comments

\* C7: whenever create_request or approve_request has returned success, the
\* storage file holds the serialization of the whole in-memory ledger: every
\* request, every field.
C7_WriteThrough ==
  (last.op \in {"create", "approve"} /\ last.result = "ok") =>
    /\ disk.kind = "json"
    /\ Len(disk.data) = Len(requests)
    /\ \A i \in 1..Len(requests) : SerializedAs(disk.data[i], requests[i])

\* C7 witness: an approval has just succeeded in a ledger of two requests, and the
\* file holds both.
C7_Witness ==
  /\ last.op = "approve"
  /\ last.result = "ok"
  /\ Len(requests) = 2
  /\ disk.kind = "json"
  /\ Len(disk.data) = 2

\* C8: when the write of a mutating operation does not complete, the ledger in
\* memory and the storage file are as they were before the operation.
C8_FailedWriteKeepsLedger ==
  [][(last'.op \in {"create", "approve"} /\ last'.result = "OSError") =>
       (requests' = requests /\ disk' = disk)]_vars

\* C9: in every reachable ledger, a request has an approver_id exactly when its
\* status is approved or rejected.
C9_ApproverIffDecided ==
  \A i \in 1..Len(requests) :
    (requests[i].approver_id # None) <=> (requests[i].status \in {"APPROVED", "REJECTED"})

\* C10: reject_request on a pending request by an actor holding approvals:reject
\* sets status rejected and records the approver; otherwise it fails and changes
\* nothing.
C10_RejectOffered ==
  [][last'.op = "reject" =>
       IF /\ Has(requests, last'.id)
          /\ Get(requests, last'.id).status = "PENDING"
          /\ Holds(last'.actor, REJECT_CHANGES)
       THEN /\ Has(requests', last'.id)
            /\ Get(requests', last'.id).status = "REJECTED"
            /\ Get(requests', last'.id).approver_id = last'.actor
       ELSE /\ last'.result # "ok"
            /\ requests' = requests
            /\ disk' = disk]_vars

\* The state a call has returned into: if the call was a successful
\* assign_role_to_user(U, R), has_permission(U, p) holds for every p of R.
LastAssignGrants ==
  (last.op = "assign_role_to_user" /\ last.result = "ok") =>
    \A p \in roles[last.id] : has_permission(last.actor, p)

\* C14: after a successful assign_role_to_user(U, R), has_permission(U, p) is
\* true for every permission p of R; later queries still answer true for every
\* permission a held, registered role grants, and a query changes no RBAC state.
C14_AssignedRoleGrants ==
  [][/\ LastAssignGrants'
     /\ last'.op = "has_permission" =>
          /\ Holds(last'.actor, last'.id) => last'.result = "True"
          /\ user_roles' = user_roles
          /\ roles' = roles]_vars

\* C14 witness: bob holds only the custom role Releaser, and a query for its
\* permission has just answered true.
C14_Witness ==
  /\ last = Call("has_permission", APPROVE_CHANGES, "bob", None, "True")
  /\ "bob" \in DOMAIN user_roles
  /\ user_roles["bob"] = {"Releaser"}

\* C15: assign_role_to_user with a role name that is not registered ends in the
\* unknown-role error and leaves the mapping as it was: no entry appears for a
\* user who had none.
C15_UnknownRoleRefused ==
  [][(last'.op = "assign_role_to_user" /\ last'.id \notin DOMAIN roles) =>
       /\ last'.result = "ValueError"
       /\ DOMAIN user_roles' = DOMAIN user_roles
       /\ \A u \in DOMAIN user_roles : user_roles'[u] = user_roles[u]]_vars

\* C15 witness: the unregistered role Ghost has been refused for bob, who still
\* has no entry.
C15_Witness ==
  /\ last = Call("assign_role_to_user", "Ghost", "bob", None, "ValueError")
  /\ "bob" \notin DOMAIN user_roles
  /\ "Ghost" \notin DOMAIN roles

\* C16: remove_role_from_user(U, R) when U does not hold R (U unknown, or R not
\* registered, included) raises nothing and leaves mapping and role table alone.
C16_RemoveUnheldIsNoOp ==
  [][(last'.op = "remove_role_from_user"
      /\ last'.id \notin RolesOf(user_roles, last'.actor)) =>
       /\ last'.result = "ok"
       /\ DOMAIN user_roles' = DOMAIN user_roles
       /\ \A u \in DOMAIN user_roles : user_roles'[u] = user_roles[u]
       /\ roles' = roles]_vars

\* C16 witness: a removal has returned for a user without any entry, while
\* another user holds roles.
C16_Witness ==
  /\ last.op = "remove_role_from_user"
  /\ last.result = "ok"
  /\ last.actor \notin DOMAIN user_roles
  /\ \E u \in DOMAIN user_roles : user_roles[u] # {}

\* C17: add_role with a name already in the role table ends in the duplicate
\* error and changes neither the table nor the mapping; a successful add_role
\* registers the role and changes nothing but the role table.
C17_AddRoleOnlyTable ==
  [][last'.op = "add_role" =>
       /\ user_roles' = user_roles
       /\ rbac_file' = rbac_file
       /\ UNCHANGED ledgerVars
       /\ IF last'.id \in DOMAIN roles
          THEN last'.result = "ValueError" /\ roles' = roles
          ELSE /\ last'.result = "ok"
               /\ DOMAIN roles' = DOMAIN roles \cup {last'.id}
               /\ \A rn \in DOMAIN roles : roles'[rn] = roles[rn]]_vars

\* C17 witness: a second Admin role has been refused while users hold roles;
\* Admin keeps its default permissions.
C17_Witness ==
  /\ last = Call("add_role", "Admin", None, None, "ValueError")
  /\ roles["Admin"] = DEFAULT_ROLES["Admin"]
  /\ \E u \in DOMAIN user_roles : user_roles[u] # {}

\* C18: assigning a role the user already holds succeeds and leaves the mapping
\* as it was.
C18_AssignIdempotent ==
  [][(/\ last'.op = "assign_role_to_user"
      /\ last'.id \in DOMAIN roles
      /\ last'.id \in RolesOf(user_roles, last'.actor)) =>
       /\ last'.result = "ok"
       /\ user_roles' = user_roles]_vars

\* C18 witness: the role just assigned was already in the mapping that had been
\* saved before the call, and the mapping is still the saved one.
C18_Witness ==
  /\ last.op = "assign_role_to_user"
  /\ last.result = "ok"
  /\ rbac_file.kind = "json"
  /\ last.actor \in DOMAIN rbac_file.data
  /\ last.id \in rbac_file.data[last.actor]
  /\ Cardinality(rbac_file.data[last.actor]) = 2
  /\ rbac_file.data = user_roles

\* C19: has_permission(u, p) answers whether p is in get_user_permissions(u),
\* which is the union of the permissions of the assigned role names that are in
\* the role table; an absent user and a dangling role name add nothing, and the
\* query changes no state.
C19_PermissionIsUnionOfRoles ==
  [][last'.op = "has_permission" =>
       /\ (last'.result = "True") <=> (last'.id \in get_user_permissions(last'.actor))
       /\ get_user_permissions(last'.actor) =
            {p \in UNION {roles[rn] : rn \in DOMAIN roles} : Holds(last'.actor, p)}
       /\ (last'.result = "True") <=> Holds(last'.actor, last'.id)
       /\ UNCHANGED <<ledgerVars, roles, user_roles, rbac_file>>]_vars

\* C19 witness: bob's only role name, loaded from the file, is not in the role
\* table, and the query for its permission has answered false.
C19_Witness ==
  /\ last = Call("has_permission", APPROVE_CHANGES, "bob", None, "False")
  /\ "bob" \in DOMAIN user_roles
  /\ user_roles["bob"] = {"Releaser"}
  /\ "Releaser" \notin DOMAIN roles

\* C20: load_state on a missing file raises nothing and leaves the engine with an
\* empty mapping, whatever it held before.
C20_MissingFileEmptiesMapping ==
  [][(last'.op = "load_state" /\ rbac_file.kind = "missing") =>
       /\ last'.result = "ok"
       /\ DOMAIN user_roles' = {}]_vars

\* C11: create_request with a request whose id is already in the ledger ends in
\* the duplicate-request error and leaves the existing record and the file as
\* they were.
C11_DuplicateCreateRefused ==
  [][(last'.op = "create" /\ Has(requests, last'.id)) =>
       /\ last'.result = "DuplicateRequestError"
       /\ requests' = requests
       /\ disk' = disk]_vars

\* C12: approve_request with an id that is not in the ledger ends in the
\* not-found error whatever the actor may do, and changes neither the ledger in
\* memory, nor the file, nor the audit trail.
C12_AbsentIdNotFound ==
  [][(last'.op = "approve" /\ ~Has(requests, last'.id)) =>
       /\ last'.result = "ValueError"
       /\ requests' = requests
       /\ disk' = disk
       /\ audit' = <<>>]_vars

\* C12 witness: an actor without the approve permission has been told that the
\* request does not exist, while the ledger holds another request.
C12_Witness ==
  /\ last.op = "approve"
  /\ last.result = "ValueError"
  /\ ~Holds(last.actor, APPROVE_CHANGES)
  /\ ~Has(requests, last.id)
  /\ Len(requests) > 0

\* C13: approve_request on a pending request is let through exactly when the
\* actor holds approvals:approve through some assigned role, whatever the name
\* of that role and whatever the request's approver_role says.
C13_GateIsPermissionOnly ==
  [][(/\ last'.op = "approve"
      /\ Has(requests, last'.id)
      /\ Get(requests, last'.id).status = "PENDING") =>
       IF Holds(last'.actor, APPROVE_CHANGES)
       THEN last'.result \in {"ok", "OSError"}
       ELSE last'.result = "PermissionError"]_vars

\* C13 witness: a user whose only role is the custom role Releaser has approved
\* a request whose approver_role names Developer.
C13_Witness ==
  /\ last.op = "approve"
  /\ last.result = "ok"
  /\ last.actor \in DOMAIN user_roles
  /\ user_roles[last.actor] = {"Releaser"}
  /\ Get(requests, last.id).approver_role = "Developer"
  /\ Get(requests, last.id).status = "APPROVED"
  /\ Get(requests, last.id).approver_id = last.actor

\* C21: load_state on a file that is present but malformed ends in a
\* state-corruption error that reaches the caller, and leaves the mapping the
\* engine held in memory as it was.
C21_CorruptFileReported ==
  [][(last'.op = "load_state" /\ rbac_file.kind = "corrupt") =>
       /\ last'.result = "StateCorruptionError"
       /\ user_roles' = user_roles]_vars

\* C22: an ApprovalWorkflow built on a storage file that is present but
\* malformed fails to start; it does not come up with an empty ledger. Only a
\* missing file gives the empty ledger.
C22_MalformedLedgerFailsLoad ==
  [][(last'.op = "reload" /\ disk.kind = "corrupt") =>
       last'.result = "StorageCorruptError"]_vars

\* The file holds a record for id whose status is the given value.
Persisted(file, id, status) ==
  /\ file.kind = "json"
  /\ \E i \in 1..Len(file.data) :
       file.data[i].key = id /\ file.data[i].value.status = status

\* The last call appended exactly one entry, of this event, actor and target.
OneEvent(entries, event, actor_id, target_id) ==
  /\ Len(entries) = 1
  /\ entries[1].event = event
  /\ entries[1].actor_id = actor_id
  /\ entries[1].target_id = target_id
  /\ entries[1].status = "success"

\* C23: a successful create_request appends exactly one change-requested entry
\* (actor = requester, target = request id) and a successful approve_request
\* exactly one change-approved entry (actor = approver, target = request id),
\* each with the ledger already in the file; a failed operation, and any other
\* operation, appends none.
C23_OneEventPerTransition ==
  [][/\ last'.op = "create" =>
          IF last'.result = "ok"
          THEN /\ OneEvent(audit', INFRA_CHANGE_REQUESTED, last'.actor, last'.id)
               /\ Persisted(disk', last'.id, "pending")
          ELSE audit' = <<>>
     /\ last'.op = "approve" =>
          IF last'.result = "ok"
          THEN /\ OneEvent(audit', INFRA_CHANGE_APPROVED, last'.actor, last'.id)
               /\ Persisted(disk', last'.id, "approved")
          ELSE audit' = <<>>
     /\ last'.op \notin {"create", "approve"} => audit' = <<>>]_vars

\* C23 witness: an approval has been saved and its one entry appended, in a
\* ledger of two requests that are both in the file.
C23_Witness ==
  /\ last.op = "approve"
  /\ last.result = "ok"
  /\ OneEvent(audit, INFRA_CHANGE_APPROVED, last.actor, last.id)
  /\ Persisted(disk, last.id, "approved")
  /\ Len(requests) = 2
  /\ Len(disk.data) = 2

\* C24: an approve attempt refused for lack of permission appends a
\* permission-denied entry naming the actor and the permission asked for.
C24_DeniedApproveAudited ==
  [][(last'.op = "approve" /\ last'.result = "PermissionError") =>
       /\ Len(audit') = 1
       /\ audit'[1].event = PERMISSION_DENIED
       /\ audit'[1].actor_id = last'.actor
       /\ audit'[1].details = [permission |-> APPROVE_CHANGES]]_vars

\* C25: list_pending_requests returns exactly the pending requests, oldest
\* created_at first.
C25_PendingOldestFirst ==
  LET listed == list_pending_requests(requests)
  IN  /\ \A i \in 1..Len(requests) :
           requests[i].status = "PENDING" <=> Count(listed, requests[i].id) = 1
      /\ \A i \in 1..Len(listed) : listed[i].status = "PENDING"
      /\ \A i, j \in 1..Len(listed) :
           i < j => listed[i].created_at <= listed[j].created_at

\* C26: no operation of the approval workflow (construction with its load,
\* create_request, approve_request, list_pending_requests), whether it succeeds
\* or fails, changes the RBAC engine's role table or its user-role mapping.
C26_WorkflowLeavesRBAC ==
  [][last'.op \in {"construct", "reload", "create", "approve", "list_pending"} =>
       /\ roles' = roles
       /\ user_roles' = user_roles
       /\ rbac_file' = rbac_file]_vars

\* C26 witness: an approval by a holder of the custom role Releaser has
\* succeeded, and that user still holds only Releaser.
C26_Witness ==
  /\ last.op = "approve"
  /\ last.result = "ok"
  /\ "Releaser" \in DOMAIN roles
  /\ last.actor \in DOMAIN user_roles
  /\ user_roles[last.actor] = {"Releaser"}
  /\ Get(requests, last.id).approver_id = last.actor

\* C27: an engine constructed without a role table starts from the default roles
\* as the module defines them, whatever add_role did on an earlier engine, so it
\* accepts add_role of a name an earlier engine added.
C27_FreshDefaultsPerEngine ==
  [][/\ last'.op = "new_engine" => roles' = DEFAULT_ROLES
     /\ (last'.op = "add_role" /\ last'.id \notin DOMAIN DEFAULT_ROLES
         /\ last.op = "new_engine") => last'.result = "ok"]_vars

\* C28: with two workflows on one storage file, a save by either never drops
\* from the file a request that a completed create_request put there, nor turns
\* back an approval that a completed approve_request recorded there.
C28_NoLostUpdate ==
  [][(/\ last'.op \in {"create", "approve", "other_create", "other_approve"}
      /\ last'.result = "ok"
      /\ disk.kind = "json") =>
       /\ disk'.kind = "json"
       /\ \A i \in 1..Len(disk.data) :
            /\ \E j \in 1..Len(disk'.data) : disk'.data[j].key = disk.data[i].key
            /\ disk.data[i].value.status = "approved" =>
                 Persisted(disk', disk.data[i].key, "approved")]_vars

\* C29: when a workflow that has just been rebuilt from the file performs a
\* successful create_request or approve_request on one request, the file's
\* records of all other requests are, field for field, what they were.
C29_RestartKeepsOtherRecords ==
  [][(/\ last.op = "reload"
      /\ last'.op \in {"create", "approve"}
      /\ last'.result = "ok"
      /\ disk.kind = "json") =>
       /\ disk'.kind = "json"
       /\ \A i \in 1..Len(disk.data) :
            disk.data[i].key # last'.id =>
              \E j \in 1..Len(disk'.data) : disk'.data[j] = disk.data[i]]_vars

\* C30: in the CLI as wired no sequence of commands makes any user hold
\* approvals:approve or roles:manage, so the approve command never succeeds and
\* no request, in memory or in the file, is ever approved.
C30_CliNeverApproves ==
  /\ \A u \in Users \cup {None} :
       ~Holds(u, APPROVE_CHANGES) /\ ~Holds(u, MANAGE_ROLES)
  /\ \A i \in 1..Len(requests) : requests[i].status = "PENDING"
  /\ disk.kind = "json" =>
       \A i \in 1..Len(disk.data) : disk.data[i].value.status = "pending"
  /\ last.op = "cli_approve" => last.result \in {"ValueError", "PermissionError"}
  /\ last.op = "cli_assign_role" => last.result = "denied"

\* C30 witness: a logged-in user, holding Developer, has asked to approve a
\* request that is in the ledger and has been refused; the request is pending.
C30_Witness ==
  /\ last.op = "cli_approve"
  /\ last.result = "PermissionError"
  /\ current_user \in Users
  /\ last.actor = current_user
  /\ current_user \in DOMAIN user_roles
  /\ "Developer" \in user_roles[current_user]
  /\ Has(requests, last.id)
  /\ Get(requests, last.id).status = "PENDING"

====
